---------------------------- MODULE Spec2Model ----------------------------
(***************************************************************************)
(* A model of listcompute.py: the inventory collector of an OCI tenancy    *)
(* (compute instances with their volumes, MySQL DB systems), its cost      *)
(* estimators and its spreadsheet export.                                  *)
(*                                                                         *)
(* Arithmetic.  The program computes with IEEE doubles.  The model         *)
(* computes the same expressions exactly, on rationals in fixed point:     *)
(* an amount of money is [u, f], u counted in 10^-4 USD and f in 1/1024    *)
(* of that (the MB -> GB division by 1024 is then exact).  Every rate of   *)
(* the pricing tables is a whole number of 10^-4 USD.  The rounding error  *)
(* of the doubles (about 10^-13 relative) is not modelled; where it        *)
(* decides a result (round() on a tie) the model allows both outcomes.     *)
(***************************************************************************)
EXTENDS Integers, Sequences, FiniteSets, TLC

VARIABLES
    pc,                 \* position of main(); "imported" when main() is not run
    error,              \* the exception that ended the run, "" when none
    regions,            \* main: regions
    compartments,       \* main: compartments
    ri,                 \* main: index of the for-loop over regions
    ci,                 \* main: index of the for-loop over compartments
    all_compute_data,   \* main: all_compute_data
    all_mysql_data,     \* main: all_mysql_data
    instances,          \* list_instances_and_volumes: instances
    ii,                 \* list_instances_and_volumes: index of the for-loop
    data,               \* list_instances_and_volumes: data
    ocpus,              \* list_instances_and_volumes: ocpus
    memory_in_gbs,      \* list_instances_and_volumes: memory_in_gbs
    boot_attachments,   \* list_instances_and_volumes: boot_attachments
    block_attachments,  \* list_instances_and_volumes: block_attachments
    vi,                 \* index of the for-loops over the attachments
    boot_volumes, boot_size, boot_cost,
    block_volumes, block_size, block_cost,
    mysql_instances,    \* list_mysql_databases: mysql_instances
    di,                 \* list_mysql_databases: index of the for-loop
    mysql_data,         \* list_mysql_databases: data
    spreadsheet,        \* the file oci_inventory.xlsx, NoFile until written
    calls,              \* the listing calls made so far, in order
    listed,             \* the (kind, lifecycle state) pairs the listings returned
    fn, fargs, fret     \* a direct call of one estimator: name, arguments, result

vars == << pc, error, regions, compartments, ri, ci, all_compute_data,
           all_mysql_data, instances, ii, data, ocpus, memory_in_gbs,
           boot_attachments, block_attachments, vi, boot_volumes, boot_size,
           boot_cost, block_volumes, block_size, block_cost, mysql_instances,
           di, mysql_data, spreadsheet, calls, listed, fn, fargs, fret >>

mainLocals == << regions, compartments, ri, ci, all_compute_data, all_mysql_data >>
instLocals == << instances, ii, ocpus, memory_in_gbs, boot_attachments,
                 block_attachments, vi, boot_volumes, boot_size, boot_cost,
                 block_volumes, block_size, block_cost >>
volLocals  == << boot_attachments, block_attachments, vi, boot_volumes, boot_size,
                 boot_cost, block_volumes, block_size, block_cost >>
dbLocals   == << mysql_instances, di, mysql_data >>
harness    == << fn, fargs, fret >>

-----------------------------------------------------------------------------
(* Bounds of the model *)

MaxSubCompartments == 1     \* active sub-compartments list_compartments returns
MaxInstances == 1           \* instances the listings of one run return in all
MaxVolumes == 1             \* attachments one attachment listing returns
MaxDbSystems == 1           \* DB systems the listings of one run return in all
MaxSmall == 4               \* direct calls: the numbers 0..MaxSmall as arguments

-----------------------------------------------------------------------------
(* Python values *)

None_ == [kind |-> "none"]
Num(n) == [kind |-> "num", n |-> n]
Str(s) == [kind |-> "str", s |-> s]
Raised(e) == [kind |-> "raise", exc |-> e]

\* Python's truth value of None and of a number.
Truthy(v) == v.kind = "num" /\ v.n # 0

(* Money: u in 10^-4 USD, f in 1/1024 of 10^-4 USD, 0 <= f < 1024. *)
FracBase == 1024
Money(u, f) == [u |-> u + f \div FracBase, f |-> f % FracBase]
MZero == Money(0, 0)
MAdd(a, b) == Money(a.u + b.u, a.f + b.f)
MScale(a, k) == Money(a.u * k, a.f * k)
MLeq(a, b) == a.u < b.u \/ (a.u = b.u /\ a.f <= b.f)
Cost(m) == [kind |-> "num", m |-> m]

HoursPerMonth == 730


-----------------------------------------------------------------------------
(* Pricing tables, in 10^-4 USD *)

os_pricing_table == [Windows |-> 920]

storage_pricing_table == [standard_block |-> 255, boot_volume |-> 255]

compute_pricing_table ==
    ( "VM.Standard3.Flex"   :> [ocpu |-> 400, memory |-> 15] ) @@
    ( "VM.Standard.E3.Flex" :> [ocpu |-> 250, memory |-> 15] ) @@
    ( "VM.Standard.E4.Flex" :> [ocpu |-> 250, memory |-> 15] ) @@
    ( "VM.Standard.E5.Flex" :> [ocpu |-> 300, memory |-> 20] ) @@
    ( "BM.Standard.E3.128"  :> [fixed |-> 28800] ) @@
    ( "BM.Standard.E4.128"  :> [fixed |-> 32000] )

MySqlShape(o, m, op, mp) == [ocpus |-> o, memory |-> m, ocpu_price |-> op, memory_price |-> mp]

mysql_pricing_table ==
    ( "MySQL.VM.Standard.E3"          :> MySqlShape(1, 8, 250, 15) ) @@
    ( "MySQL.VM.Standard.E4"          :> MySqlShape(1, 16, 300, 20) ) @@
    ( "MySQL.HeatWave.VM.Standard.E3" :> MySqlShape(16, 512, 400, 25) ) @@
    ( "MySQL.HeatWave.VM.Standard.E4" :> MySqlShape(16, 1024, 450, 30) ) @@
    ( "MySQL.HeatWave.BM.Standard.E3" :> MySqlShape(32, 2048, 600, 40) ) @@
    ( "MySQL.VM.Standard2.8.120GB"    :> MySqlShape(8, 120, 500, 30) ) @@
    ( "MySQL.VM.Standard.E3.4.64GB"   :> MySqlShape(4, 64, 350, 20) ) @@
    ( "MySQL.HeatWave.VM.Standard"    :> MySqlShape(32, 2048, 600, 40) ) @@
    ( "MySQL.VM.Standard1.1"          :> MySqlShape(1, 7, 200, 12) ) @@
    ( "MySQL.VM.Standard2.1"          :> MySqlShape(1, 15, 220, 13) ) @@
    ( "MySQL.VM.Standard2.2"          :> MySqlShape(2, 30, 240, 14) ) @@
    ( "MySQL.VM.Standard2.4"          :> MySqlShape(4, 60, 280, 16) ) @@
    ( "MySQL.VM.Standard2.8"          :> MySqlShape(8, 120, 320, 18) ) @@
    ( "MySQL.VM.Standard2.16"         :> MySqlShape(16, 240, 380, 20) ) @@
    ( "MySQL.VM.Standard2.24"         :> MySqlShape(24, 320, 420, 22) ) @@
    ( "MySQL.2"                       :> MySqlShape(2, 16, 300, 15) ) @@
    ( "MySQL.4"                       :> MySqlShape(4, 32, 350, 20) ) @@
    ( "MySQL.8"                       :> MySqlShape(8, 64, 400, 25) ) @@
    ( "MySQL.16"                      :> MySqlShape(16, 128, 450, 30) ) @@
    ( "MySQL.32"                      :> MySqlShape(32, 256, 500, 35) ) @@
    ( "MySQL.48"                      :> MySqlShape(48, 384, 550, 40) ) @@
    ( "MySQL.64"                      :> MySqlShape(64, 512, 600, 45) ) @@
    ( "MySQL.256"                     :> MySqlShape(256, 2048, 700, 50) )

-----------------------------------------------------------------------------
(* The cost estimators *)

\* get_os_cost(os_name, ocpus): ocpus * os_cost_per_ocpu * 730.  The default
\* rate is the int 0, a table rate is a float: a str times the int 0 is "",
\* and "" * 730 is ""; a str times a float raises TypeError.
get_os_cost(os_name, o) ==
    LET in_table == os_name \in DOMAIN os_pricing_table
        os_cost_per_ocpu == IF in_table THEN os_pricing_table[os_name] ELSE 0
    IN  IF o.kind = "num"
          THEN Cost(Money(o.n * os_cost_per_ocpu * HoursPerMonth, 0))
          ELSE IF in_table THEN Raised("TypeError") ELSE Str("")

\* Mutant: the MB -> GB conversion done with a floor division.
get_storage_cost_floor(size_in_mbs) ==
    Money((IF Truthy(size_in_mbs) THEN size_in_mbs.n \div 1024 ELSE 0)
             * storage_pricing_table["standard_block"], 0)

\* get_storage_cost(size_in_mbs, region): the region is not read.
\* size_in_gbs is kept in 1/1024 GB, which is the size in MB.
get_storage_cost(size_in_mbs) ==
    LET size_in_gbs_1024 == IF Truthy(size_in_mbs) THEN size_in_mbs.n ELSE 0
    IN  Money(0, size_in_gbs_1024 * storage_pricing_table["standard_block"])

\* float(x) if x != "N/A" else 0
FloatOrZero(x) == IF x # Str("N/A") THEN x.n ELSE 0

\* Mutant: the memory of a flexible shape not charged.
get_instance_cost_no_memory(shape, o, m) ==
    IF shape \in DOMAIN compute_pricing_table
      THEN IF "fixed" \in DOMAIN compute_pricing_table[shape]
             THEN Money(compute_pricing_table[shape].fixed, 0)
             ELSE Money(FloatOrZero(o) * compute_pricing_table[shape].ocpu, 0)
      ELSE MZero

\* Mutant: a shape the table does not hold charged at a default rate per OCPU.
get_instance_cost_default_rate(shape, o, m) ==
    IF shape \in DOMAIN compute_pricing_table
      THEN IF "fixed" \in DOMAIN compute_pricing_table[shape]
             THEN Money(compute_pricing_table[shape].fixed, 0)
             ELSE Money(FloatOrZero(o) * compute_pricing_table[shape].ocpu
                          + FloatOrZero(m) * compute_pricing_table[shape].memory, 0)
      ELSE Money(FloatOrZero(o) * compute_pricing_table["VM.Standard.E4.Flex"].ocpu, 0)

\* get_instance_cost(shape, ocpus, memory_in_gbs, region): the amount per HOUR;
\* the region is not read.
get_instance_cost(shape, o, m) ==
    LET oc == FloatOrZero(o)
        mem == FloatOrZero(m)
    IN  IF shape \in DOMAIN compute_pricing_table
          THEN IF "fixed" \in DOMAIN compute_pricing_table[shape]
                 THEN Money(compute_pricing_table[shape].fixed, 0)
                 ELSE Money(oc * compute_pricing_table[shape].ocpu
                              + mem * compute_pricing_table[shape].memory, 0)
          ELSE MZero

\* round(x, 2) of an amount x in 10^-4 USD, in cents.  On a tie the double
\* nearest to x lies just below or just above it, and round() goes either way
\* (27.265 -> 27.27, 61.575 -> 61.57): both are allowed.
Round2(x) ==
    IF x % 100 = 50 THEN {x \div 100, x \div 100 + 1} ELSE {(x + 50) \div 100}

storage_cost_per_gb_month == 255

UnknownShape == [kind |-> "dict", error |-> "Unknown shape"]

\* get_mysql_cost before its round(): total_cost_per_month in 10^-4 USD.  The
\* hourly amounts are kept as numerators over 730 (the storage cost per hour
\* is storage * 0.0255 / 730), so that * 730 at the end is exact.
mysql_total_cost_per_month(shape, storage_in_gbs) ==
    LET shape_details == mysql_pricing_table[shape]
        ocpu_cost == shape_details.ocpus * shape_details.ocpu_price
        memory_cost == shape_details.memory * shape_details.memory_price
        storage_cost_per_hour_730 == storage_in_gbs * storage_cost_per_gb_month
        total_cost_per_hour_730 ==
            (ocpu_cost + memory_cost) * HoursPerMonth + storage_cost_per_hour_730
    IN  total_cost_per_hour_730

\* Mutant: an unknown shape costing 0, as the compute estimator has it.
get_mysql_cost_zero_default(shape, storage_in_gbs) ==
    IF shape \notin DOMAIN mysql_pricing_table
      THEN {[kind |-> "num", cents |-> 0]}
      ELSE {[kind |-> "num", cents |-> c] :
                c \in Round2(mysql_total_cost_per_month(shape, storage_in_gbs))}

\* get_mysql_cost(shape, storage_in_gbs): the set of values it may return.
get_mysql_cost(shape, storage_in_gbs) ==
    IF shape \notin DOMAIN mysql_pricing_table
      THEN {UnknownShape}
      ELSE {[kind |-> "num", cents |-> c] :
                c \in Round2(mysql_total_cost_per_month(shape, storage_in_gbs))}

-----------------------------------------------------------------------------
(* What the cloud APIs may answer *)

TargetRegion == "me-jeddah-1"
RegionNames == {TargetRegion, "us-ashburn-1"}

\* list_region_subscriptions: the subscribed regions (the home region at
\* least), each once, in any order.
RegionLists ==
    { <<r>> : r \in RegionNames } \cup { p \in RegionNames \X RegionNames : p[1] # p[2] }

\* The root compartment (the tenancy) and the k-th active sub-compartment.
RootCompartment == [id |-> <<"ocid1.tenancy", 0>>, name |-> <<"root", 0>>]
SubCompartment(k) == [id |-> <<"ocid1.compartment", k>>, name |-> <<"sub", k>>]

InstanceStates == {"RUNNING", "STOPPED", "TERMINATED"}
InstanceShapes == {"VM.Standard3.Flex", "BM.Standard.E3.128", "VM.GPU.A10.1"}
ShapeConfigs ==
    { None_,
      [ocpus |-> Num(2), memory_in_gbs |-> Num(16)],
      [ocpus |-> Num(2), memory_in_gbs |-> None_],
      [ocpus |-> None_,  memory_in_gbs |-> Num(16)] }
InstanceChoices ==
    [lifecycle_state : InstanceStates, shape : InstanceShapes, shape_config : ShapeConfigs]

VolumeSizes == {Num(1024), Num(51200)}
OperatingSystems == {"Windows", "Oracle Linux"}

DbStates == {"ACTIVE", "DELETED"}
DbShapes == {"MySQL.VM.Standard.E3", "MySQL.Custom"}
DbStorageSizes == {10, 100}
DbChoices ==
    [lifecycle_state : DbStates, shape_name : DbShapes, is_highly_available : {FALSE}]

\* A listing of n resources, the k-th named after k.
Listings(max, choices) ==
    UNION { [1..n -> choices] : n \in 0..max }

Named(prefix, k, c) ==
    [id |-> <<prefix, k>>, display_name |-> <<"name", prefix, k>>,
     time_created |-> <<"utc", k>>, availability_domain |-> <<"AD", 1>>] @@ c

\* x.replace(tzinfo=None) if x else None, of a time the API always sets
NaiveTime(t) == <<"naive", t[2]>>

-----------------------------------------------------------------------------
(* The run of main() *)

NoFile == [written |-> FALSE]

\* if __name__ == "__main__": main().  Run as a script the module runs main();
\* imported, it only defines its functions, which are then called directly.
Init ==
    /\ pc \in {"list_region_subscriptions", "imported"}
    /\ error = ""
    /\ regions = <<>>
    /\ compartments = <<>>
    /\ ri = 0
    /\ ci = 0
    /\ all_compute_data = <<>>
    /\ all_mysql_data = <<>>
    /\ instances = <<>>
    /\ ii = 0
    /\ data = <<>>
    /\ ocpus = None_
    /\ memory_in_gbs = None_
    /\ boot_attachments = <<>>
    /\ block_attachments = <<>>
    /\ vi = 0
    /\ boot_volumes = <<>>
    /\ boot_size = 0
    /\ boot_cost = MZero
    /\ block_volumes = <<>>
    /\ block_size = 0
    /\ block_cost = MZero
    /\ mysql_instances = <<>>
    /\ di = 0
    /\ mysql_data = <<>>
    /\ spreadsheet = NoFile
    /\ calls = <<>>
    /\ listed = {}
    /\ fn = "none"
    /\ fargs = <<>>
    /\ fret = <<>>

\* Mutant: the exception caught and logged, the run going on to its export.
RaiseCaught(exc) ==
    /\ pc' = "export"
    /\ error' = exc
    /\ UNCHANGED << mainLocals, instLocals, data, dbLocals,
                    spreadsheet, calls, listed, harness >>

\* An exception nothing catches: it leaves main() and ends the process.
Raise(exc) ==
    /\ pc' = "crashed"
    /\ error' = exc
    /\ UNCHANGED << mainLocals, instLocals, data, dbLocals,
                    spreadsheet, calls, listed, harness >>

\* A failing call of the cloud API at the step `at`.
ApiFails(at) ==
    /\ pc = at
    /\ Raise("ServiceError")

\* main: regions = get_all_subscribed_regions(config)
ListRegionSubscriptions ==
    \/ /\ pc = "list_region_subscriptions"
       /\ \E rs \in RegionLists : regions' = rs
       /\ pc' = "list_compartments"
       /\ UNCHANGED << error, compartments, ri, ci, all_compute_data, all_mysql_data,
                       instLocals, data, dbLocals, spreadsheet, calls,
                       listed, harness >>
    \/ ApiFails("list_region_subscriptions")

\* get_all_compartments: the paginated list_compartments
ListCompartments ==
    \/ /\ pc = "list_compartments"
       /\ \E n \in 0..MaxSubCompartments :
             compartments' = [k \in 1..n |-> SubCompartment(k)]
       /\ pc' = "get_compartment"
       /\ UNCHANGED << error, regions, ri, ci, all_compute_data, all_mysql_data,
                       instLocals, data, dbLocals, spreadsheet, calls,
                       listed, harness >>
    \/ ApiFails("list_compartments")

\* get_all_compartments: get_compartment(tenancy_id), the root first; then main
\* starts its loop over the regions.
GetCompartment ==
    \/ /\ pc = "get_compartment"
       /\ compartments' = <<RootCompartment>> \o compartments
       /\ ri' = 1
       /\ pc' = "for_region"
       /\ UNCHANGED << error, regions, ci, all_compute_data, all_mysql_data,
                       instLocals, data, dbLocals, spreadsheet, calls,
                       listed, harness >>
    \/ ApiFails("get_compartment")

\* Mutant: the region filter lost, every subscribed region collected.
RegionSelectedAlways(region) == TRUE

\* main: if region == "me-jeddah-1"
RegionSelected(region) == region = TargetRegion

\* main: for region in regions
ForRegion ==
    /\ pc = "for_region"
    /\ IF ri > Len(regions)
         THEN pc' = "export" /\ UNCHANGED << ri, ci >>
         ELSE IF RegionSelected(regions[ri])
                THEN pc' = "for_compartment" /\ ci' = 1 /\ UNCHANGED ri
                ELSE pc' = "for_region" /\ ri' = ri + 1 /\ UNCHANGED ci
    /\ UNCHANGED << error, regions, compartments, all_compute_data, all_mysql_data,
                    instLocals, data, dbLocals, spreadsheet, calls,
                    listed, harness >>

\* main: for compartment in compartments
ForCompartment ==
    /\ pc = "for_compartment"
    /\ IF ci > Len(compartments)
         THEN pc' = "for_region" /\ ri' = ri + 1
         ELSE pc' = "list_instances" /\ UNCHANGED ri
    /\ UNCHANGED << error, regions, compartments, ci, all_compute_data,
                    all_mysql_data, instLocals, data, dbLocals,
                    spreadsheet, calls, listed, harness >>

(* list_instances_and_volumes(config, region, compartment_id) *)

ListingCall(api, l) ==
    [api |-> api, region |-> regions[ri], compartment_id |-> compartments[ci].id,
     returned |-> Len(l)]

\* The number of resources the calls of `api` among the first k returned.
RECURSIVE Returned(_, _)
Returned(api, k) ==
    IF k = 0
      THEN 0
      ELSE Returned(api, k - 1)
             + (IF calls[k].api = api THEN calls[k].returned ELSE 0)

\* the paginated list_instances
ListInstances ==
    \/ /\ pc = "list_instances"
       /\ \E l \in Listings(MaxInstances - Returned("list_instances", Len(calls)),
                            InstanceChoices) :
             /\ instances' = [k \in 1..Len(l) |-> Named("instance", k, l[k])]
             /\ listed' = listed \cup
                    { <<"instance", l[k].lifecycle_state>> : k \in 1..Len(l) }
             /\ calls' = Append(calls, ListingCall("list_instances", l))
       /\ data' = <<>>
       /\ ii' = 1
       /\ pc' = "for_instance"
       /\ UNCHANGED << error, mainLocals, ocpus, memory_in_gbs, volLocals,
                       dbLocals, spreadsheet, harness >>
    \/ ApiFails("list_instances")

\* main: rec["compartment_name"] = compartment_name, for each returned record
Tagged(recs) ==
    [k \in 1..Len(recs) |-> recs[k] @@ [compartment_name |-> compartments[ci].name]]

\* Mutant: the lifecycle filter lost, every listed instance gets a record.
SkipInstanceNever(instance) == FALSE

\* if instance.lifecycle_state == "TERMINATED": continue
SkipInstance(instance) == instance.lifecycle_state = "TERMINATED"

\* shape_config.<field> if shape_config and shape_config.<field> else "N/A"
OrNotApplicable(shape_config, field) ==
    IF shape_config # None_ /\ Truthy(shape_config[field])
      THEN shape_config[field]
      ELSE Str("N/A")

\* for instance in instances: the head of the loop, up to the first API call of
\* its body; after the last instance the function returns and main appends the
\* records to all_compute_data.
ForInstance ==
    /\ pc = "for_instance"
    /\ IF ii > Len(instances)
         THEN /\ all_compute_data' = all_compute_data \o Tagged(data)
              /\ data' = <<>>
              /\ instances' = <<>>
              /\ ii' = 0
              /\ pc' = "list_db_systems"
              /\ UNCHANGED << ocpus, memory_in_gbs >>
         ELSE IF SkipInstance(instances[ii])
                THEN /\ ii' = ii + 1
                     /\ pc' = "for_instance"
                     /\ UNCHANGED << all_compute_data, data, instances, ocpus,
                                     memory_in_gbs >>
                ELSE /\ ocpus' = OrNotApplicable(instances[ii].shape_config, "ocpus")
                     /\ memory_in_gbs' =
                            OrNotApplicable(instances[ii].shape_config, "memory_in_gbs")
                     /\ pc' = "list_boot_volume_attachments"
                     /\ UNCHANGED << all_compute_data, data, instances, ii >>
    /\ UNCHANGED << error, regions, compartments, ri, ci, all_mysql_data, volLocals,
                    dbLocals, spreadsheet, calls, listed, harness >>

ListBootVolumeAttachments ==
    \/ /\ pc = "list_boot_volume_attachments"
       /\ \E n \in 0..MaxVolumes :
             boot_attachments' = [k \in 1..n |-> [boot_volume_id |-> <<"bootvolume", k>>]]
       /\ pc' = "list_volume_attachments"
       /\ UNCHANGED << error, mainLocals, instances, ii, data, ocpus, memory_in_gbs,
                       block_attachments, vi, boot_volumes, boot_size, boot_cost,
                       block_volumes, block_size, block_cost, dbLocals,
                       spreadsheet, calls, listed, harness >>
    \/ ApiFails("list_boot_volume_attachments")

\* list_volume_attachments, then boot_volumes = [], boot_size = 0, boot_cost = 0
ListVolumeAttachments ==
    \/ /\ pc = "list_volume_attachments"
       /\ \E n \in 0..MaxVolumes :
             block_attachments' = [k \in 1..n |-> [volume_id |-> <<"volume", k>>]]
       /\ boot_volumes' = <<>>
       /\ boot_size' = 0
       /\ boot_cost' = MZero
       /\ vi' = 1
       /\ pc' = "for_boot"
       /\ UNCHANGED << error, mainLocals, instances, ii, data, ocpus, memory_in_gbs,
                       boot_attachments, block_volumes, block_size, block_cost,
                       dbLocals, spreadsheet, calls, listed, harness >>
    \/ ApiFails("list_volume_attachments")

\* for bva in boot_attachments; after it block_volumes = [], block_size = 0,
\* block_cost = 0
ForBoot ==
    /\ pc = "for_boot"
    /\ IF vi > Len(boot_attachments)
         THEN /\ block_volumes' = <<>>
              /\ block_size' = 0
              /\ block_cost' = MZero
              /\ vi' = 1
              /\ pc' = "for_block"
         ELSE /\ pc' = "get_boot_volume"
              /\ UNCHANGED << vi, block_volumes, block_size, block_cost >>
    /\ UNCHANGED << error, mainLocals, instances, ii, data, ocpus, memory_in_gbs,
                    boot_attachments, block_attachments, boot_volumes, boot_size,
                    boot_cost, dbLocals, spreadsheet, calls, listed,
                    harness >>

GetBootVolume ==
    \/ /\ pc = "get_boot_volume"
       /\ \E size_in_mbs \in VolumeSizes :
             /\ boot_size' = boot_size + size_in_mbs.n
             /\ boot_cost' = MAdd(boot_cost, get_storage_cost(size_in_mbs))
       /\ boot_volumes' = Append(boot_volumes, boot_attachments[vi].boot_volume_id)
       /\ vi' = vi + 1
       /\ pc' = "for_boot"
       /\ UNCHANGED << error, mainLocals, instances, ii, data, ocpus, memory_in_gbs,
                       boot_attachments, block_attachments, block_volumes, block_size,
                       block_cost, dbLocals, spreadsheet, calls, listed,
                       harness >>
    \/ ApiFails("get_boot_volume")

\* for bva in block_attachments
ForBlock ==
    /\ pc = "for_block"
    /\ pc' = IF vi > Len(block_attachments) THEN "get_image" ELSE "get_volume"
    /\ UNCHANGED << error, mainLocals, instLocals, data, dbLocals,
                    spreadsheet, calls, listed, harness >>

GetVolume ==
    \/ /\ pc = "get_volume"
       /\ \E size_in_mbs \in VolumeSizes :
             /\ block_size' = block_size + size_in_mbs.n
             /\ block_cost' = MAdd(block_cost, get_storage_cost(size_in_mbs))
       /\ block_volumes' = Append(block_volumes, block_attachments[vi].volume_id)
       /\ vi' = vi + 1
       /\ pc' = "for_block"
       /\ UNCHANGED << error, mainLocals, instances, ii, data, ocpus, memory_in_gbs,
                       boot_attachments, block_attachments, boot_volumes, boot_size,
                       boot_cost, dbLocals, spreadsheet, calls, listed,
                       harness >>
    \/ ApiFails("get_volume")

\* Mutant: a stopped instance charged like a running one.
EstimatedComputeCostAnyState(instance, o, m) ==
    MScale(get_instance_cost(instance.shape, o, m), HoursPerMonth)

\* if instance.lifecycle_state == "STOPPED": 0
\* else: get_instance_cost(instance.shape, ocpus, memory_in_gbs, region) * 730
EstimatedComputeCost(instance, o, m) ==
    IF instance.lifecycle_state = "STOPPED"
      THEN MZero
      ELSE MScale(get_instance_cost(instance.shape, o, m), HoursPerMonth)

\* The record of one instance, once its OS cost is a number.
InstanceRecord(instance, os, os_cost) ==
    LET estimated_compute_cost_per_month ==
            EstimatedComputeCost(instance, ocpus, memory_in_gbs)
        total_storage_cost_per_month == MAdd(boot_cost, block_cost)
    IN  [ region |-> regions[ri],
          compartment_id |-> compartments[ci].id,
          instance_name |-> instance.display_name,
          instance_state |-> instance.lifecycle_state,
          instance_ocid |-> instance.id,
          OS |-> os,
          shape |-> instance.shape,
          ocpus |-> ocpus,
          memory_in_gbs |-> memory_in_gbs,
          boot_size_in_MBs |-> boot_size,
          block_size_in_MBs |-> block_size,
          boot_volumes |-> boot_volumes,
          block_volumes |-> block_volumes,
          date_created |-> NaiveTime(instance.time_created),
          estimated_compute_cost_per_month |-> estimated_compute_cost_per_month,
          estimated_os_cost_per_month |-> os_cost,
          estimated_storage_cost_per_month |-> total_storage_cost_per_month,
          total_cost_per_month |->
              MAdd(MAdd(estimated_compute_cost_per_month,
                        total_storage_cost_per_month), os_cost) ]

\* get_image, then the costs and the record of the instance.  get_os_cost may
\* raise; when it returns a str, the sum for total_cost_per_month (a number
\* plus a str) raises TypeError.
GetImage ==
    \/ /\ pc = "get_image"
       /\ \E os \in OperatingSystems :
             LET total_os_cost_per_month == get_os_cost(os, ocpus)
             IN  IF total_os_cost_per_month.kind = "num"
                   THEN /\ data' = Append(data,
                               InstanceRecord(instances[ii], os, total_os_cost_per_month.m))
                        /\ ii' = ii + 1
                        /\ pc' = "for_instance"
                        /\ UNCHANGED << error, mainLocals, instances, ocpus,
                                        memory_in_gbs, volLocals, dbLocals,
                                        spreadsheet, calls, listed, harness >>
                   ELSE Raise("TypeError")
    \/ ApiFails("get_image")

-----------------------------------------------------------------------------
(* list_mysql_databases(config, region, compartment_id) *)

\* the paginated list_db_systems
ListDbSystems ==
    \/ /\ pc = "list_db_systems"
       /\ \E l \in Listings(MaxDbSystems - Returned("list_db_systems", Len(calls)),
                            DbChoices) :
             /\ mysql_instances' = [k \in 1..Len(l) |-> Named("dbsystem", k, l[k])]
             /\ listed' = listed \cup
                    { <<"dbsystem", l[k].lifecycle_state>> : k \in 1..Len(l) }
             /\ calls' = Append(calls, ListingCall("list_db_systems", l))
       /\ mysql_data' = <<>>
       /\ di' = 1
       /\ pc' = "for_db"
       /\ UNCHANGED << error, mainLocals, instLocals, data, spreadsheet, harness >>
    \/ ApiFails("list_db_systems")

\* if db.lifecycle_state == "DELETED": continue
SkipDbSystem(db) == db.lifecycle_state = "DELETED"

\* for db in mysql_instances; after the last one the function returns, main
\* appends the records to all_mysql_data and goes to the next compartment.
ForDb ==
    /\ pc = "for_db"
    /\ IF di > Len(mysql_instances)
         THEN /\ all_mysql_data' = all_mysql_data \o Tagged(mysql_data)
              /\ mysql_data' = <<>>
              /\ mysql_instances' = <<>>
              /\ di' = 0
              /\ ci' = ci + 1
              /\ pc' = "for_compartment"
         ELSE /\ IF SkipDbSystem(mysql_instances[di])
                   THEN di' = di + 1 /\ pc' = "for_db"
                   ELSE di' = di /\ pc' = "get_db_system"
              /\ UNCHANGED << all_mysql_data, mysql_data, mysql_instances, ci >>
    /\ UNCHANGED << error, regions, compartments, ri, all_compute_data, instLocals,
                    data, spreadsheet, calls, listed, harness >>

DbRecord(db, data_storage_size_in_gbs, db_cost) ==
    [ region |-> regions[ri],
      compartment_id |-> compartments[ci].id,
      db_system_name |-> db.display_name,
      db_system_id |-> db.id,
      shape |-> db.shape_name,
      data_storage_size_in_gbs |-> data_storage_size_in_gbs,
      availability_domain |-> db.availability_domain,
      is_highly_available |-> db.is_highly_available,
      state |-> db.lifecycle_state,
      time_created |-> NaiveTime(db.time_created),
      db_cost |-> db_cost ]

\* get_db_system, then the cost and the record of the DB system
GetDbSystem ==
    \/ /\ pc = "get_db_system"
       /\ \E data_storage_size_in_gbs \in DbStorageSizes :
            \E db_cost \in get_mysql_cost(mysql_instances[di].shape_name,
                                          data_storage_size_in_gbs) :
               mysql_data' = Append(mysql_data,
                   DbRecord(mysql_instances[di], data_storage_size_in_gbs, db_cost))
       /\ di' = di + 1
       /\ pc' = "for_db"
       /\ UNCHANGED << error, mainLocals, instLocals, data, mysql_instances,
                       spreadsheet, calls, listed, harness >>
    \/ ApiFails("get_db_system")

-----------------------------------------------------------------------------
(* main: the export *)

compute_columns_order ==
    << "region", "compartment_name", "compartment_id", "instance_state",
       "instance_name", "instance_ocid", "OS", "shape", "ocpus", "memory_in_gbs",
       "boot_size_in_MBs", "block_size_in_MBs", "boot_volumes", "block_volumes",
       "date_created", "estimated_compute_cost_per_month",
       "estimated_os_cost_per_month", "estimated_storage_cost_per_month",
       "total_cost_per_month" >>

Range(seq) == { seq[k] : k \in 1..Len(seq) }

\* pd.DataFrame(records).columns: the keys of the records; none for no record.
DataFrameColumns(records) == UNION { DOMAIN records[k] : k \in 1..Len(records) }

\* df[columns]: KeyError when a column is not one of the frame's.
Selectable(records, columns) == Range(columns) \subseteq DataFrameColumns(records)

Select(records, columns) ==
    [k \in 1..Len(records) |-> [c \in Range(columns) |-> records[k][c]]]

\* df_compute = df_compute[compute_columns_order], then the two to_excel
Export ==
    /\ pc = "export"
    /\ IF Selectable(all_compute_data, compute_columns_order)
         THEN /\ spreadsheet' =
                    [ written |-> TRUE,
                      file |-> "oci_inventory.xlsx",
                      sheets |-> <<
                        [ sheet_name |-> "Compute Instances",
                          columns |-> compute_columns_order,
                          rows |-> Select(all_compute_data, compute_columns_order) ],
                        [ sheet_name |-> "MySQL Databases",
                          columns |-> DataFrameColumns(all_mysql_data),
                          rows |-> all_mysql_data ] >> ]
              /\ pc' = "done"
              /\ UNCHANGED << error, mainLocals, instLocals, data, dbLocals,
                               calls, listed, harness >>
         ELSE Raise("KeyError")

-----------------------------------------------------------------------------
(* Direct calls of the estimators, the module being imported *)

SmallNumbers == 0..MaxSmall

CallSizes == {None_} \cup { Num(n) : n \in SmallNumbers \cup {512, 1024, 25600, 51200, 102400} }
CallShapes == DOMAIN compute_pricing_table \cup InstanceShapes
CallCounts == {Str("N/A")} \cup { Num(n) : n \in SmallNumbers \cup {16} }
CallDbShapes == DOMAIN mysql_pricing_table \cup DbShapes
CallDbStorageSizes == SmallNumbers \cup DbStorageSizes \cup {50, 1024}

\* get_storage_cost of two sizes, one call after the other
CallGetStorageCost ==
    /\ pc = "imported"
    /\ \E a \in CallSizes, b \in CallSizes :
          /\ fargs' = [a |-> a, b |-> b]
          /\ fret' = [a |-> get_storage_cost(a), b |-> get_storage_cost(b)]
    /\ fn' = "get_storage_cost"
    /\ UNCHANGED << pc, error, mainLocals, instLocals, data, dbLocals,
                    spreadsheet, calls, listed >>

CallGetInstanceCost ==
    /\ pc = "imported"
    /\ \E shape \in CallShapes, o \in CallCounts, m \in CallCounts :
          /\ fargs' = [shape |-> shape, ocpus |-> o, memory_in_gbs |-> m]
          /\ fret' = get_instance_cost(shape, o, m)
    /\ fn' = "get_instance_cost"
    /\ UNCHANGED << pc, error, mainLocals, instLocals, data, dbLocals,
                    spreadsheet, calls, listed >>

CallGetOsCost ==
    /\ pc = "imported"
    /\ \E os \in OperatingSystems, o \in CallCounts :
          /\ fargs' = [os_name |-> os, ocpus |-> o]
          /\ fret' = get_os_cost(os, o)
    /\ fn' = "get_os_cost"
    /\ UNCHANGED << pc, error, mainLocals, instLocals, data, dbLocals,
                    spreadsheet, calls, listed >>

CallGetMysqlCost ==
    /\ pc = "imported"
    /\ \E shape \in CallDbShapes, storage \in CallDbStorageSizes :
          /\ fargs' = [shape |-> shape, storage_in_gbs |-> storage]
          /\ \E c \in get_mysql_cost(shape, storage) : fret' = c
    /\ fn' = "get_mysql_cost"
    /\ UNCHANGED << pc, error, mainLocals, instLocals, data, dbLocals,
                    spreadsheet, calls, listed >>

Next ==
    \/ ListRegionSubscriptions
    \/ ListCompartments
    \/ GetCompartment
    \/ ForRegion
    \/ ForCompartment
    \/ ListInstances
    \/ ForInstance
    \/ ListBootVolumeAttachments
    \/ ListVolumeAttachments
    \/ ForBoot
    \/ GetBootVolume
    \/ ForBlock
    \/ GetVolume
    \/ GetImage
    \/ ListDbSystems
    \/ ForDb
    \/ GetDbSystem
    \/ Export
    \/ CallGetStorageCost
    \/ CallGetInstanceCost
    \/ CallGetOsCost
    \/ CallGetMysqlCost

Spec == Init /\ [][Next]_vars

-----------------------------------------------------------------------------
(* The records a run holds: in the function's list, in main's tables and in  *)
(* the rows of the written sheets.                                           *)

Written == spreadsheet.written
ComputeSheet == spreadsheet.sheets[1]
MysqlSheet == spreadsheet.sheets[2]

EveryComputeRecord(P(_)) ==
    /\ \A k \in 1..Len(data) : P(data[k])
    /\ \A k \in 1..Len(all_compute_data) : P(all_compute_data[k])
    /\ Written => \A k \in 1..Len(ComputeSheet.rows) : P(ComputeSheet.rows[k])

EveryMysqlRecord(P(_)) ==
    /\ \A k \in 1..Len(mysql_data) : P(mysql_data[k])
    /\ \A k \in 1..Len(all_mysql_data) : P(all_mysql_data[k])
    /\ Written => \A k \in 1..Len(MysqlSheet.rows) : P(MysqlSheet.rows[k])

-----------------------------------------------------------------------------
(* C1 *)

NotTerminated(r) == r.instance_state # "TERMINATED"
NotDeleted(r) == r.state # "DELETED"

\* C1: no record of list_instances_and_volumes is of a TERMINATED instance and
\* no record of list_mysql_databases is of a DELETED DB system, so none is in
\* main's accumulated tables nor in a written sheet.
C1_NoTerminatedNoDeleted ==
    /\ EveryComputeRecord(NotTerminated)
    /\ EveryMysqlRecord(NotDeleted)

\* The collection is over, and the listings returned a TERMINATED instance and
\* a DELETED DB system.
C1_Witness ==
    /\ pc = "export"
    /\ <<"instance", "TERMINATED">> \in listed
    /\ <<"dbsystem", "DELETED">> \in listed
    /\ all_compute_data = <<>>
    /\ all_mysql_data = <<>>

-----------------------------------------------------------------------------
(* C2 *)

StoppedCostsNothingToCompute(r) ==
    r.instance_state = "STOPPED" =>
        /\ r.estimated_compute_cost_per_month = MZero
        /\ r.total_cost_per_month =
              MAdd(r.estimated_storage_cost_per_month, r.estimated_os_cost_per_month)

TotalIsSum(r) ==
    r.total_cost_per_month =
        MAdd(r.estimated_compute_cost_per_month,
             MAdd(r.estimated_os_cost_per_month, r.estimated_storage_cost_per_month))

StoppedAndTotal(r) == StoppedCostsNothingToCompute(r) /\ TotalIsSum(r)

\* C2: the record of a STOPPED instance has a compute cost of 0 and a total of
\* storage cost + OS cost; the total of every record is the sum of its compute,
\* OS and storage costs.
C2_StoppedComputeZero == EveryComputeRecord(StoppedAndTotal)

\* A stopped Windows instance of a priced shape with a boot and a block volume
\* is in main's table.
C2_Witness ==
    \E k \in 1..Len(all_compute_data) :
        LET r == all_compute_data[k]
        IN  /\ r.instance_state = "STOPPED"
            /\ r.shape \in DOMAIN compute_pricing_table
            /\ r.ocpus = Num(2)
            /\ r.OS = "Windows"
            /\ r.estimated_os_cost_per_month # MZero
            /\ Len(r.boot_volumes) > 0
            /\ Len(r.block_volumes) > 0
            /\ r.estimated_storage_cost_per_month # MZero

-----------------------------------------------------------------------------
(* C3 *)

NotApplicable == Str("N/A")

\* x with 0 in place of "N/A"
ZeroIfNotApplicable(x) == IF x = NotApplicable THEN 0 ELSE x.n

\* C3: an instance whose OCPU count or memory size is "N/A" gets its record,
\* with the costs computed with 0 in place of the missing quantity: whenever
\* get_image answers for such an instance, the record is appended, its OS cost
\* is that of ZeroIfNotApplicable(ocpus) OCPUs and its total is the sum.
C3_NotApplicableTreatedAsZero ==
    [][ ( /\ pc = "get_image"
          /\ (ocpus = NotApplicable \/ memory_in_gbs = NotApplicable)
          /\ error' # "ServiceError" )
        => /\ pc' = "for_instance"
           /\ Len(data') = Len(data) + 1
           /\ LET r == data'[Len(data')]
              IN  /\ r.estimated_os_cost_per_month =
                        get_os_cost(r.OS, Num(ZeroIfNotApplicable(ocpus))).m
                  /\ r.estimated_compute_cost_per_month =
                        EstimatedComputeCost(instances[ii], ocpus, memory_in_gbs)
                  /\ TotalIsSum(r) ]_vars

-----------------------------------------------------------------------------
(* C4 *)

IsFixed(shape) == "fixed" \in DOMAIN compute_pricing_table[shape]

\* (ocpus x ocpu_rate + memory_gb x memory_rate) of a flexible shape, the fixed
\* rate of a fixed one, in 10^-4 USD per hour
HourlyRate(shape, o, m) ==
    IF IsFixed(shape)
      THEN compute_pricing_table[shape].fixed
      ELSE ZeroIfNotApplicable(o) * compute_pricing_table[shape].ocpu
             + ZeroIfNotApplicable(m) * compute_pricing_table[shape].memory

StoredIsMonthly(r) ==
    (r.instance_state # "STOPPED" /\ r.shape \in DOMAIN compute_pricing_table) =>
        /\ r.estimated_compute_cost_per_month =
              [u |-> HourlyRate(r.shape, r.ocpus, r.memory_in_gbs) * 730, f |-> 0]
        /\ ( r.shape = "VM.Standard3.Flex" /\ r.ocpus = Num(2)
               /\ r.memory_in_gbs = Num(16) )
             => r.estimated_compute_cost_per_month = [u |-> 759200, f |-> 0]

CalledWithPricedShape ==
    /\ pc = "imported"
    /\ fn = "get_instance_cost"
    /\ fargs.shape \in DOMAIN compute_pricing_table

\* C4 as stated: for a priced shape get_instance_cost returns the monthly
\* amount, rate x 730, and that is what the record stores.
C4_ReturnsMonthly ==
    /\ CalledWithPricedShape =>
          fret = [u |-> HourlyRate(fargs.shape, fargs.ocpus, fargs.memory_in_gbs) * 730,
                  f |-> 0]
    /\ EveryComputeRecord(StoredIsMonthly)

\* C4 amended: for a priced shape get_instance_cost returns the amount per
\* hour, (ocpus x ocpu_rate + memory_gb x memory_rate) or the fixed rate, an
\* "N/A" quantity counting as 0; the record of a non-stopped instance stores
\* that times 730 (75.92 for VM.Standard3.Flex with 2 OCPUs and 16 GB).
C4_ReturnsHourlyStoresMonthly ==
    /\ CalledWithPricedShape =>
          fret = [u |-> HourlyRate(fargs.shape, fargs.ocpus, fargs.memory_in_gbs),
                  f |-> 0]
    /\ EveryComputeRecord(StoredIsMonthly)

\* A running VM.Standard3.Flex with 2 OCPUs and 16 GB is in main's table, at
\* 75.92 a month.
C4_Witness ==
    \E k \in 1..Len(all_compute_data) :
        LET r == all_compute_data[k]
        IN  /\ r.instance_state = "RUNNING"
            /\ r.shape = "VM.Standard3.Flex"
            /\ r.ocpus = Num(2)
            /\ r.memory_in_gbs = Num(16)
            /\ r.estimated_compute_cost_per_month = [u |-> 759200, f |-> 0]

-----------------------------------------------------------------------------
(* C5 *)

\* size_mb / 1024 x 0.0255 as an amount: m x 1024 = size_mb x 255
IsStorageCostOf(m, size_mb) == m.u * 1024 + m.f = size_mb * 255

UnpricedShape(r) == r.shape \notin DOMAIN compute_pricing_table

UnpricedCostsNothing(r) ==
    UnpricedShape(r) =>
        /\ r.estimated_compute_cost_per_month = MZero
        /\ r.estimated_storage_cost_per_month = MZero

UnpricedComputeZeroStorageBySize(r) ==
    UnpricedShape(r) =>
        /\ r.estimated_compute_cost_per_month = MZero
        /\ IsStorageCostOf(r.estimated_storage_cost_per_month,
                           r.boot_size_in_MBs + r.block_size_in_MBs)
        /\ (r.estimated_storage_cost_per_month = MZero
              <=> (r.boot_volumes = <<>> /\ r.block_volumes = <<>>))

CalledWithUnpricedShape ==
    /\ pc = "imported"
    /\ fn = "get_instance_cost"
    /\ fargs.shape \notin DOMAIN compute_pricing_table

\* C5 as stated: an instance of a shape the pricing table does not hold has a
\* compute cost of 0 and a storage cost of 0.
C5_UnknownShapeCostsNothing ==
    /\ CalledWithUnpricedShape => fret = MZero
    /\ EveryComputeRecord(UnpricedCostsNothing)

\* C5 amended: for a shape the pricing table does not hold the compute cost is
\* 0 (get_instance_cost returns 0); the storage cost does not read the shape:
\* it is size / 1024 x 0.0255 over the attached volumes, and is 0 only for an
\* instance with no attached volume.
C5_UnknownShapeComputeZero ==
    /\ CalledWithUnpricedShape => fret = MZero
    /\ EveryComputeRecord(UnpricedComputeZeroStorageBySize)

\* A running instance of an unpriced shape with 2 OCPUs, 16 GB and a boot
\* volume is in main's table.
C5_Witness ==
    \E k \in 1..Len(all_compute_data) :
        LET r == all_compute_data[k]
        IN  /\ r.instance_state = "RUNNING"
            /\ UnpricedShape(r)
            /\ r.ocpus = Num(2)
            /\ r.memory_in_gbs = Num(16)
            /\ Len(r.boot_volumes) > 0
            /\ r.estimated_compute_cost_per_month = MZero

-----------------------------------------------------------------------------
(* C6 *)

RunEnded == pc \in {"done", "crashed"}

\* C6: a run in which every API call succeeds ends with the spreadsheet
\* written, its two sheets holding one row per collected record, whatever the
\* number of records, the compute sheet in the declared column order.
C6_SuccessfulRunWritesSheets ==
    (RunEnded /\ error # "ServiceError") =>
        /\ Written
        /\ ComputeSheet.sheet_name = "Compute Instances"
        /\ MysqlSheet.sheet_name = "MySQL Databases"
        /\ ComputeSheet.columns = compute_columns_order
        /\ Len(ComputeSheet.rows) = Len(all_compute_data)
        /\ Len(MysqlSheet.rows) = Len(all_mysql_data)

-----------------------------------------------------------------------------
(* C7 *)

collected == << mainLocals, instLocals, data, dbLocals, calls, listed >>

\* C7: a failing API call is not caught.  The step that fails ends the run
\* where it is, with nothing more collected and no spreadsheet; after it
\* nothing happens any more.
C7_ApiFailureEndsRun ==
    [][ /\ error' = "ServiceError" =>
            /\ pc' = "crashed"
            /\ ~spreadsheet'.written
            /\ UNCHANGED collected
        /\ error = "ServiceError" => UNCHANGED vars ]_vars

\* list_db_systems (or a later call) failed after an instance's record had
\* reached main's table: the run is over and no sheet holds the record.
C7_Witness ==
    /\ pc = "crashed"
    /\ error = "ServiceError"
    /\ Len(all_compute_data) > 0
    /\ Len(calls) >= 2
    /\ ~Written

-----------------------------------------------------------------------------
(* C8 *)

\* (ocpus x ocpu_price + memory x memory_price) x 730 + storage_gb x 0.0255,
\* in 10^-4 USD
MysqlMonthly(shape, storage_gb) ==
    LET d == mysql_pricing_table[shape]
    IN  (d.ocpus * d.ocpu_price + d.memory * d.memory_price) * 730 + storage_gb * 255

\* cents is x (in 10^-4 USD) rounded to 2 decimals
IsRounded2(cents, x) == 100 * cents - x \in -50..50

IsMysqlCostOf(cost, shape, storage_gb) ==
    IF shape \in DOMAIN mysql_pricing_table
      THEN cost.kind = "num" /\ IsRounded2(cost.cents, MysqlMonthly(shape, storage_gb))
      ELSE cost = [kind |-> "dict", error |-> "Unknown shape"]

DbCostIsMysqlCost(r) == IsMysqlCostOf(r.db_cost, r.shape, r.data_storage_size_in_gbs)

NotDeletedBefore(k) == { j \in 1..(k - 1) : mysql_instances[j].lifecycle_state # "DELETED" }

\* C8: get_mysql_cost returns {"error": "Unknown shape"} for a shape its table
\* does not hold and the rounded monthly amount for one it holds;
\* list_mysql_databases stores that value as db_cost, and emits one row for
\* every DB system that is not DELETED, of a known shape or not.
C8_MysqlCostOrSignal ==
    /\ (pc = "imported" /\ fn = "get_mysql_cost") =>
          IsMysqlCostOf(fret, fargs.shape, fargs.storage_in_gbs)
    /\ EveryMysqlRecord(DbCostIsMysqlCost)
    /\ pc = "for_db" =>
          /\ Len(mysql_data) = Cardinality(NotDeletedBefore(di))
          /\ \A j \in NotDeletedBefore(di) :
                \E k \in 1..Len(mysql_data) :
                    /\ mysql_data[k].db_system_id = mysql_instances[j].id
                    /\ mysql_data[k].shape = mysql_instances[j].shape_name

\* The written sheet holds the row of an ACTIVE DB system of an unknown shape,
\* with the signal value as its db_cost.
C8_Witness ==
    /\ pc = "done"
    /\ \E k \in 1..Len(MysqlSheet.rows) :
          /\ MysqlSheet.rows[k].shape \notin DOMAIN mysql_pricing_table
          /\ MysqlSheet.rows[k].state = "ACTIVE"
          /\ MysqlSheet.rows[k].db_cost = [kind |-> "dict", error |-> "Unknown shape"]

-----------------------------------------------------------------------------
(* C9 *)

\* The size in MB an argument of get_storage_cost stands for: 0 when absent.
SizeInMb(v) == IF v.kind = "num" THEN v.n ELSE 0

StorageCostIsSum(r) ==
    IsStorageCostOf(r.estimated_storage_cost_per_month,
                    r.boot_size_in_MBs + r.block_size_in_MBs)

-----------------------------------------------------------------------------
(* C10 *)

InTargetRegion(r) == r.region = "me-jeddah-1"

\* The record carries the id and the name of one of the compartments.
TaggedWithCompartment(r) ==
    \E j \in 1..Len(compartments) :
        /\ r.compartment_id = compartments[j].id
        /\ r.compartment_name = compartments[j].name

CollectionOver == pc \in {"export", "done"} \/ (pc = "crashed" /\ error = "KeyError")

\* C10: every listing call and every record is of the region "me-jeddah-1";
\* when the collection is over and that region is subscribed, the listing
\* calls are, compartment after compartment in the order of
\* get_all_compartments (the root first), one list_instances and then one
\* list_db_systems; every record in main's tables carries the id and name of
\* its compartment; the spreadsheet is written only after that.
C10_OnlyTargetRegion ==
    /\ \A k \in 1..Len(calls) : calls[k].region = "me-jeddah-1"
    /\ EveryComputeRecord(InTargetRegion)
    /\ EveryMysqlRecord(InTargetRegion)
    /\ \A k \in 1..Len(all_compute_data) : TaggedWithCompartment(all_compute_data[k])
    /\ \A k \in 1..Len(all_mysql_data) : TaggedWithCompartment(all_mysql_data[k])
    /\ Written => pc = "done"
    /\ CollectionOver =>
          /\ compartments[1] = RootCompartment
          /\ IF \E k \in 1..Len(regions) : regions[k] = "me-jeddah-1"
               THEN /\ Len(calls) = 2 * Len(compartments)
                    /\ \A j \in 1..Len(compartments) :
                          /\ calls[2 * j - 1].api = "list_instances"
                          /\ calls[2 * j - 1].compartment_id = compartments[j].id
                          /\ calls[2 * j].api = "list_db_systems"
                          /\ calls[2 * j].compartment_id = compartments[j].id
               ELSE calls = <<>>

\* Two regions are subscribed, the other one first; the spreadsheet is written
\* and holds the record of an instance of the sub-compartment.
C10_Witness ==
    /\ pc = "done"
    /\ regions = <<"us-ashburn-1", "me-jeddah-1">>
    /\ Len(compartments) = 2
    /\ \E k \in 1..Len(ComputeSheet.rows) :
          /\ ComputeSheet.rows[k].compartment_id = compartments[2].id
          /\ ComputeSheet.rows[k].compartment_name = compartments[2].name

=============================================================================
